---- MODULE Spec2Model ----
(***************************************************************************)
(* Model of the positive-return probability estimation engine:             *)
(*   qae_module.py  classical_positive_prob_estimate,                      *)
(*                  quantum_positive_prob_estimate                         *)
(*   app.py         estimate (the /api/estimate handler and its            *)
(*                  per-ticker loop)                                       *)
(*                                                                         *)
(* Floats are modelled as exact rationals in lowest terms, or NaN:         *)
(*   [nan |-> BOOLEAN, n |-> Int, d |-> positive Nat]                      *)
(***************************************************************************)
EXTENDS Integers, Sequences, FiniteSets, TLC

\* ---------------------------------------------------------------- bounds
\* Largest number of rows of the returns frame.
MaxRows == 2
\* Largest length of the requested ticker list.
MaxTickers == 2
\* Largest length of a sample sequence handed directly to the estimators.
MaxLen == 3

\* ------------------------------------------------------ program constants
\* data.get('shots', 1024)
DefaultShots == 1024

\* -------------------------------------------------------------- floats
RECURSIVE GCD(_, _)
GCD(a, b) == IF b = 0 THEN a ELSE GCD(b, a % b)

Abs(x) == IF x < 0 THEN 0 - x ELSE x

NaN == [nan |-> TRUE, n |-> 0, d |-> 1]

\* The float n/d (d > 0), in lowest terms.
F(n, d) ==
    LET g == GCD(Abs(n), d)
    IN  [nan |-> FALSE, n |-> n \div g, d |-> d \div g]

Zero == F(0, 1)
One == F(1, 1)

\* x < y on floats: every comparison with NaN is false.
Lt(x, y) == ~x.nan /\ ~y.nan /\ x.n * y.d < y.n * x.d

\* Python's builtin two-argument max(a, b) and min(a, b): the first argument
\* is kept unless the second compares strictly greater (smaller).
PyMax(a, b) == IF Lt(a, b) THEN b ELSE a
PyMin(a, b) == IF Lt(b, a) THEN b ELSE a

\* math.isnan
IsNaN(x) == x.nan

InUnit(x) == ~x.nan /\ 0 <= x.n /\ x.n <= x.d

\* ------------------------------------------------------------- samples
\* A return value; the unit is immaterial, only sign and sums matter.
SampleValues == {F(0 - 1, 1), Zero, One}
\* A cell of the frame: a return, or NaN for a missing observation.
Cells == SampleValues \cup {NaN}

RECURSIVE SeqsUpTo(_, _)
SeqsUpTo(S, k) ==
    IF k = 0 THEN {<<>>}
    ELSE LET shorter == SeqsUpTo(S, k - 1)
         IN  shorter \cup {Append(s, x) : s \in {q \in shorter : Len(q) = k - 1}, x \in S}

\* Faulty variant of Positive: zero counted as a positive return.
Positive_NonNegative(x) == ~x.nan /\ x.n >= 0

\* (samples > 0): elementwise, NaN > 0 is False.
Positive(x) == Lt(Zero, x)

\* The boolean array (samples > 0).
GreaterThanZero(s) == [k \in 1..Len(s) |-> Positive(s[k])]

\* numpy's mean of a boolean array: the share of True entries; the mean of
\* an empty array is nan.
BoolMean(b) ==
    IF Len(b) = 0 THEN NaN
    ELSE F(Cardinality({k \in 1..Len(b) : b[k]}), Len(b))

RECURSIVE SumN(_, _)
SumN(s, k) == IF k = 0 THEN 0 ELSE s[k].n + SumN(s, k - 1)

\* series.mean() of a NaN-free series of unit-denominator values.
SeriesMean(s) == IF Len(s) = 0 THEN NaN ELSE F(SumN(s, Len(s)), Len(s))

\* Series.dropna()
DropNa(s) == SelectSeq(s, LAMBDA x : ~x.nan)

\* ------------------------------------------------- classical estimator
classical_positive_prob_estimate(samples) ==
    BoolMean(GreaterThanZero(samples))

\* ------------------------------------------------ quantum-style estimator
\* The module-level flag set by the guarded import of the simulation toolkit.
AvailabilityValues == BOOLEAN

\* What the toolkit calls of quantum_positive_prob_estimate can do: raise, or
\* return a result object carrying any of the attributes estimation,
\* estimates (a list of objects with an estimation) and value.
Run(raises, has_estimation, estimation, has_estimates, estimates, has_value, value) ==
    [raises |-> raises,
     has_estimation |-> has_estimation, estimation |-> estimation,
     has_estimates |-> has_estimates, estimates |-> estimates,
     has_value |-> has_value, value |-> value]

\* Estimates a backend may report: NaN, below 0, inside [0,1], above 1.
Estimates == {NaN, F(0 - 1, 2), F(1, 2), F(3, 2)}

BackendRuns ==
    {Run(TRUE, FALSE, NaN, FALSE, <<>>, FALSE, NaN)}
    \cup {Run(FALSE, TRUE, e, FALSE, <<>>, FALSE, NaN) : e \in Estimates}
    \cup {Run(FALSE, FALSE, NaN, TRUE, <<e>>, FALSE, NaN) : e \in {F(1, 2), F(3, 2)}}
    \cup {Run(FALSE, FALSE, NaN, TRUE, <<>>, TRUE, e) : e \in {F(1, 2), NaN}}
    \cup {Run(FALSE, FALSE, NaN, FALSE, <<>>, TRUE, e) : e \in {F(1, 2), F(0 - 1, 2)}}
    \cup {Run(FALSE, FALSE, NaN, TRUE, <<>>, FALSE, NaN),
          Run(FALSE, FALSE, NaN, FALSE, <<>>, FALSE, NaN)}

\* empirical_p = min(max(empirical_p, 0.0), 1.0)
ClampEmpirical(p) == PyMin(PyMax(p, Zero), One)

\* Faulty variant of ClampReturn: the final clamp left out.
ClampReturn_Unclamped(est) == est

\* return max(0.0, min(1.0, est))
ClampReturn(est) == PyMax(Zero, PyMin(One, est))

\* est, and the branch of the attribute chain that produced it.
ReadEstimate(run, empirical_p) ==
    IF run.has_estimation
    THEN [est |-> run.estimation, source |-> "backend"]
    ELSE IF run.has_estimates /\ Len(run.estimates) > 0
    THEN [est |-> run.estimates[1], source |-> "backend"]
    ELSE IF run.has_value
    THEN [est |-> run.value, source |-> "backend"]
    ELSE [est |-> empirical_p, source |-> "empirical"]

\* The outcome of one call: raised or a returned value, with the probability
\* encoded into the rotation angle theta = 2*arcsin(sqrt(p)) (<<>> when the
\* call raised before the state preparation), est before the final clamp and
\* the source of est.
quantum_positive_prob_estimate(samples, shots, available, run) ==
    IF ~available
    THEN [raised |-> TRUE, value |-> NaN, encoded |-> <<>>,
          est |-> <<>>, source |-> "none"]
    ELSE LET empirical_p ==
                 ClampEmpirical(BoolMean(GreaterThanZero(samples)))
         IN  IF run.raises
             THEN [raised |-> TRUE, value |-> NaN,
                   encoded |-> <<empirical_p>>, est |-> <<>>, source |-> "none"]
             ELSE LET r == ReadEstimate(run, empirical_p)
                  IN  [raised |-> FALSE, value |-> ClampReturn(r.est),
                       encoded |-> <<empirical_p>>, est |-> <<r.est>>,
                       source |-> r.source]

\* ----------------------------------------------------------- orchestrator
Tickers == {"AAPL", "MSFT"}

\* Shot counts a request may carry: negative, zero, the default.
ShotValues == {0 - 1, 0, DefaultShots}

\* Returns that occur in the downloaded frame: one that is not strictly
\* positive and one that is; NaN marks a missing observation.
FrameCells == {Zero, One, NaN}

VARIABLES
    tickers,          \* data['tickers']: the requested instruments, in order
    use_quantum,      \* bool(data.get('use_quantum', True))
    shots,            \* int(data.get('shots', 1024))
    QISKIT_AVAILABLE, \* the toolkit availability flag of qae_module
    returns,          \* df.pct_change().dropna()
    results,          \* the result mapping: ticker -> record
    calls,            \* history: per processed ticker, which estimators ran
    i,                \* position of the loop "for t in tickers" (1-based)
    pc,               \* "idle", "start", "loop", "done", "raised"
    response,         \* what the handler returns
    fn_samples,       \* argument of a direct call of the classical estimator
    fn_arg,           \* the argument as the caller holds it after the call
    fn_ret,           \* <<>> before the call returns, <<value>> after
    fn_pc             \* "idle", "call", "returned"

vars == <<tickers, use_quantum, shots, QISKIT_AVAILABLE, returns,
          results, calls, i, pc, response, fn_samples, fn_arg, fn_ret, fn_pc>>

reqVars == <<tickers, use_quantum, shots, QISKIT_AVAILABLE>>
fnVars == <<fn_samples, fn_arg, fn_ret, fn_pc>>

Empty == [t \in {} |-> NaN]

Extend(f, t, v) == [x \in DOMAIN f \cup {t} |-> IF x = t THEN v ELSE f[x]]

RowOk(f, k) == \A c \in DOMAIN f : ~f[c][k].nan

RECURSIVE Pick(_, _, _)
Pick(col, f, k) ==
    IF k > Len(col) THEN <<>>
    ELSE (IF RowOk(f, k) THEN <<col[k]>> ELSE <<>>) \o Pick(col, f, k + 1)

\* DataFrame.dropna(): every row holding a NaN in any column is dropped.
DropNaRows(f) == [c \in DOMAIN f |-> Pick(f[c], f, 1)]

\* if math.isnan(x): x = 0.0
NanToZero(x) == IF IsNaN(x) THEN Zero ELSE x

NoData == [error |-> "no data"]

\* Faulty variant of NoValidData: the error record with a further field populated.
NoValidData_WithCount == [error |-> "no valid data", n_samples |-> 0]

NoValidData == [error |-> "no valid data"]

\* Faulty variant of ExceptBranch: the fallback tagged as a quantum result.
ExceptBranch_TaggedQuantum(samples) ==
    [raised |-> FALSE,
     quantum_est |-> classical_positive_prob_estimate(samples),
     method |-> "quantum"]

\* except Exception: quantum_est = classical estimate; method = 'fallback'
ExceptBranch(samples) ==
    [raised |-> FALSE,
     quantum_est |-> classical_positive_prob_estimate(samples),
     method |-> "fallback"]

\* Faulty variant of QuantumBranch: the call without its try/except.
QuantumBranch_NoTry(samples, n_shots, available, run) ==
    LET q == quantum_positive_prob_estimate(samples, n_shots, available, run)
    IN  [raised |-> q.raised, quantum_est |-> q.value, method |-> "quantum"]

\* if use_quantum: try: ... method = 'quantum'  except Exception: ...
QuantumBranch(samples, n_shots, available, run) ==
    LET q == quantum_positive_prob_estimate(samples, n_shots, available, run)
    IN  IF q.raised
        THEN ExceptBranch(samples)
        ELSE [raised |-> FALSE, quantum_est |-> q.value, method |-> "quantum"]

\* Faulty variant of ClassicalBranch: the classical path carrying the fallback tag.
ClassicalBranch_TaggedFallback(samples) ==
    [raised |-> FALSE,
     quantum_est |-> classical_positive_prob_estimate(samples),
     method |-> "fallback"]

\* else: quantum_est = classical estimate; method = 'classical'
ClassicalBranch(samples) ==
    [raised |-> FALSE,
     quantum_est |-> classical_positive_prob_estimate(samples),
     method |-> "classical"]

\* The value record of one instrument.
ValueRecord(series, branch) ==
    [classical_mean |-> NanToZero(SeriesMean(series)),
     classical_positive_prob |->
         NanToZero(BoolMean(GreaterThanZero(series))),
     quantum_positive_prob |-> NanToZero(branch.quantum_est),
     method_used |-> branch.method,
     n_samples |-> Len(series)]

\* Which estimators ran for one instrument.
CallLog(classical, quantum, encoded, est, source) ==
    [classical |-> classical, quantum |-> quantum,
     encoded |-> encoded, est |-> est, source |-> source]

NoCalls == CallLog(FALSE, "none", <<>>, <<>>, "none")

\* What df.pct_change() can hold below its first row: a column for some of
\* the tickers, all of one length, each cell a return or NaN.
Frames ==
    UNION {[cols -> [1..r -> FrameCells]] : cols \in SUBSET Tickers, r \in 0..MaxRows}

\* A request has arrived.
Init ==
    /\ tickers \in SeqsUpTo(Tickers, MaxTickers)
    /\ use_quantum \in BOOLEAN
    /\ shots \in ShotValues
    /\ QISKIT_AVAILABLE \in AvailabilityValues
    /\ returns = Empty
    /\ results = Empty
    /\ calls = Empty
    /\ i = 1
    /\ pc = "start"
    /\ response = [status |-> "none"]
    /\ fn_samples = <<>>
    /\ fn_arg = <<>>
    /\ fn_ret = <<>>
    /\ fn_pc = "idle"

\* df = yf.download(...); returns = df.pct_change().dropna(); results = {}
Prepare ==
    /\ pc = "start"
    /\ \E frame \in Frames : returns' = DropNaRows(frame)
    /\ results' = Empty
    /\ calls' = Empty
    /\ i' = 1
    /\ pc' = "loop"
    /\ UNCHANGED <<reqVars, response, fnVars>>

InLoop == pc = "loop" /\ i <= Len(tickers)

\* returns[t] raises: results[t] = {'error': 'no data'}; continue
NoColumn ==
    /\ InLoop
    /\ tickers[i] \notin DOMAIN returns
    /\ results' = Extend(results, tickers[i], NoData)
    /\ calls' = Extend(calls, tickers[i], NoCalls)
    /\ i' = i + 1
    /\ UNCHANGED <<reqVars, returns, pc, response, fnVars>>

\* series.empty: results[t] = {'error': 'no valid data'}; continue
EmptySeries ==
    /\ InLoop
    /\ tickers[i] \in DOMAIN returns
    /\ DropNa(returns[tickers[i]]) = <<>>
    /\ results' = Extend(results, tickers[i], NoValidData)
    /\ calls' = Extend(calls, tickers[i], NoCalls)
    /\ i' = i + 1
    /\ UNCHANGED <<reqVars, returns, pc, response, fnVars>>

\* One iteration with use_quantum false.
ClassicalPath ==
    /\ InLoop
    /\ tickers[i] \in DOMAIN returns
    /\ DropNa(returns[tickers[i]]) # <<>>
    /\ ~use_quantum
    /\ LET series == DropNa(returns[tickers[i]])
           branch == ClassicalBranch(series)
       IN  /\ results' = Extend(results, tickers[i], ValueRecord(series, branch))
           /\ calls' = Extend(calls, tickers[i], CallLog(TRUE, "none", <<>>, <<>>, "none"))
    /\ i' = i + 1
    /\ UNCHANGED <<reqVars, returns, pc, response, fnVars>>

\* One iteration with use_quantum true, for each thing the toolkit may do.
QuantumPath ==
    /\ InLoop
    /\ tickers[i] \in DOMAIN returns
    /\ DropNa(returns[tickers[i]]) # <<>>
    /\ use_quantum
    /\ \E run \in BackendRuns :
         LET series == DropNa(returns[tickers[i]])
             q == quantum_positive_prob_estimate(series, shots, QISKIT_AVAILABLE, run)
             branch == QuantumBranch(series, shots, QISKIT_AVAILABLE, run)
         IN  /\ calls' = Extend(calls, tickers[i],
                    CallLog(q.raised, IF q.raised THEN "raised" ELSE "returned",
                            q.encoded, q.est, q.source))
             /\ IF branch.raised
                THEN /\ pc' = "raised"
                     /\ UNCHANGED <<results, i>>
                ELSE /\ results' = Extend(results, tickers[i], ValueRecord(series, branch))
                     /\ i' = i + 1
                     /\ pc' = pc
    /\ UNCHANGED <<reqVars, returns, response, fnVars>>

\* return jsonify({'status': 'ok', 'results': results})
Respond ==
    /\ pc = "loop"
    /\ i > Len(tickers)
    /\ pc' = "done"
    /\ response' = [status |-> "ok", results |-> results]
    /\ UNCHANGED <<reqVars, returns, results, calls, i, fnVars>>

Next == Prepare \/ NoColumn \/ EmptySeries \/ ClassicalPath \/ QuantumPath \/ Respond

Spec == Init /\ [][Next]_vars

\* --------------------------------- direct calls of the classical estimator
FnInit ==
    /\ fn_samples \in SeqsUpTo(Cells, MaxLen)
    /\ fn_arg = fn_samples
    /\ fn_ret = <<>>
    /\ fn_pc = "call"
    /\ tickers = <<>>
    /\ use_quantum = FALSE
    /\ shots = DefaultShots
    /\ QISKIT_AVAILABLE = FALSE
    /\ returns = Empty
    /\ results = Empty
    /\ calls = Empty
    /\ i = 1
    /\ pc = "idle"
    /\ response = [status |-> "none"]

\* samples = np.asarray(samples) rebinds the local name; the caller's
\* sequence is left as it was.
CallClassical ==
    /\ fn_pc = "call"
    /\ fn_ret' = <<classical_positive_prob_estimate(fn_samples)>>
    /\ fn_arg' = fn_arg
    /\ fn_pc' = "returned"
    /\ UNCHANGED <<fn_samples, reqVars, returns, results, calls, i, pc, response>>

FnNext == CallClassical

FnSpec == FnInit /\ [][FnNext]_vars

\* ================================================================ claims
Series(t) == DropNa(returns[t])

ValueFields ==
    {"classical_mean", "classical_positive_prob", "quantum_positive_prob",
     "method_used", "n_samples"}

IsValueRecord(r) == DOMAIN r = ValueFields
IsErrorRecord(r) == DOMAIN r = {"error"}

\* Instruments that have an entry and a non-empty cleaned sample sequence.
WithSamples == {t \in DOMAIN results \cap DOMAIN returns : Series(t) # <<>>}

\* The number of samples strictly greater than zero, counted by position.
StrictlyPositive(s) == Cardinality({k \in 1..Len(s) : ~s[k].nan /\ s[k].n > 0})

\* x is the fraction cnt / len.
IsFraction(x, cnt, len) == ~x.nan /\ x.d > 0 /\ x.n * len = cnt * x.d

Le(x, y) == ~x.nan /\ ~y.nan /\ x.n * y.d <= y.n * x.d

Requested == {tickers[k] : k \in 1..Len(tickers)}

\* C1: with use_quantum true, for every instrument with a non-empty sample
\* sequence: if the quantum-style estimator raised (always the case when
\* QISKIT_AVAILABLE is false), nothing is raised to the caller, the record's
\* method is the fallback tag and its quantum_positive_prob equals
\* classical_positive_prob_estimate(samples).
C1_FallbackOnFailure ==
    /\ pc # "raised"
    /\ \A t \in WithSamples :
         /\ (use_quantum /\ ~QISKIT_AVAILABLE) => calls[t].quantum = "raised"
         /\ calls[t].quantum = "raised" =>
              /\ IsValueRecord(results[t])
              /\ results[t].method_used = "fallback"
              /\ results[t].quantum_positive_prob =
                     classical_positive_prob_estimate(Series(t))

\* C1 witness: a batch finished in which the toolkit was available, one call
\* of the estimator raised and the record carries the fallback tag.
C1_Witness ==
    /\ pc = "done"
    /\ QISKIT_AVAILABLE
    /\ \E t \in WithSamples :
         /\ calls[t].quantum = "raised"
         /\ calls[t].encoded # <<>>
         /\ results[t].method_used = "fallback"
         /\ results[t].quantum_positive_prob = F(1, 2)

\* C2: with use_quantum false, for every instrument with a non-empty sample
\* sequence, whatever shots and QISKIT_AVAILABLE are: the quantum-style
\* estimator is not called, method is classical, the quantum slot equals
\* classical_positive_prob_estimate(samples), classical_positive_prob is the
\* fraction of strictly positive samples, n_samples is the sequence length.
C2_ClassicalPath ==
    ~use_quantum =>
        \A t \in WithSamples :
            /\ calls[t].quantum = "none"
            /\ IsValueRecord(results[t])
            /\ results[t].method_used = "classical"
            /\ results[t].quantum_positive_prob =
                   classical_positive_prob_estimate(Series(t))
            /\ IsFraction(results[t].classical_positive_prob,
                          StrictlyPositive(Series(t)), Len(Series(t)))
            /\ results[t].n_samples = Len(Series(t))

\* C2 witness: a classical record of a mixed series, under a non-positive
\* shot count and with the toolkit available.
C2_Witness ==
    /\ ~use_quantum
    /\ shots <= 0
    /\ QISKIT_AVAILABLE
    /\ \E t \in WithSamples :
         /\ results[t].method_used = "classical"
         /\ results[t].classical_positive_prob = F(1, 2)
         /\ results[t].n_samples = 2

C3_Complete ==
    /\ pc # "raised"
    /\ pc \in {"loop", "done"} => DOMAIN results = {tickers[k] : k \in 1..(i - 1)}
    /\ \A t \in DOMAIN results : IsValueRecord(results[t]) \/ IsErrorRecord(results[t])
    /\ pc = "done" => /\ DOMAIN response.results = Requested
                      /\ response.results = results

C3_OthersUntouched ==
    /\ \A t \in DOMAIN results :
          /\ t \in DOMAIN results'
          /\ results'[t] # results[t] => (InLoop /\ t = tickers[i])
    /\ (pc = "loop" /\ pc' # "loop") => (pc' = "done" /\ i > Len(tickers))
    /\ (pc = "loop" /\ pc' = "loop") =>
          (i' = i + 1 /\ tickers[i] \in DOMAIN results')

C4_NoDataRecord ==
    \A t \in DOMAIN results \cap DOMAIN returns :
        Series(t) = <<>> =>
            /\ results[t] = [error |-> "no data"]
            /\ calls[t].classical = FALSE
            /\ calls[t].quantum = "none"

\* C4 amended: an instrument whose cleaned sample sequence is empty gets
\* exactly {error: "no valid data"}, an instrument with no column in the
\* returns frame gets exactly {error: "no data"}; either way no other field
\* is populated and no estimator is run for it.
C4_ErrorRecords ==
    \A t \in DOMAIN results :
        /\ (t \in DOMAIN returns /\ Series(t) = <<>>) =>
              /\ results[t] = [error |-> "no valid data"]
              /\ calls[t].classical = FALSE
              /\ calls[t].quantum = "none"
        /\ t \notin DOMAIN returns =>
              /\ results[t] = [error |-> "no data"]
              /\ calls[t].classical = FALSE
              /\ calls[t].quantum = "none"

\* C4 witness: a finished quantum-enabled batch holding an entry for an
\* instrument whose cleaned series is empty.
C4_Witness ==
    /\ pc = "done"
    /\ use_quantum
    /\ \E t \in DOMAIN results \cap DOMAIN returns :
         Series(t) = <<>> /\ IsErrorRecord(results[t])

\* C5: a request with shots <= 0 is rejected before estimation: no
\* instrument is processed, no record is produced, and the caller receives
\* an error.
C5_RejectsNonPositiveShots ==
    shots <= 0 =>
        /\ results = Empty
        /\ calls = Empty
        /\ pc = "done" => response.status = "error"

\* C6: for a non-empty sequence classical_positive_prob_estimate returns
\* (number of samples > 0) / (number of samples), a value in [0,1]; zero and
\* negative samples are not counted; the caller's sequence is unchanged.
C6_ClassicalFraction ==
    (fn_pc = "returned" /\ fn_samples # <<>>) =>
        /\ Len(fn_ret) = 1
        /\ IsFraction(fn_ret[1], StrictlyPositive(fn_samples), Len(fn_samples))
        /\ InUnit(fn_ret[1])
        /\ fn_arg = fn_samples

\* C6 witness: the call has returned 1/3 for a sequence holding a zero, a
\* negative and a positive sample.
C6_Witness ==
    /\ fn_pc = "returned"
    /\ fn_samples = <<Zero, F(0 - 1, 1), One>>
    /\ fn_ret = <<F(1, 3)>>

\* C7: classical_positive_prob_estimate of the empty sequence returns 0.0.
C7_EmptyIsZero ==
    (fn_pc = "returned" /\ fn_samples = <<>>) => fn_ret = <<Zero>>

\* C8: in every value record, on the quantum, classical and fallback paths
\* and whatever est the backend reported, quantum_positive_prob is a number
\* in [0,1], not NaN.
C8_QuantumSlotInUnit ==
    \A t \in DOMAIN results :
        IsValueRecord(results[t]) => InUnit(results[t].quantum_positive_prob)

\* C8 witness: a quantum record whose backend estimate was NaN.
C8_Witness ==
    \E t \in DOMAIN results :
        /\ IsValueRecord(results[t])
        /\ results[t].method_used = "quantum"
        /\ calls[t].est = <<NaN>>

\* C9: a record carries method quantum only if its quantum_positive_prob was
\* derived from the backend's estimate; when the backend result holds no
\* estimate the estimator signals failure and the record is a fallback one.
C9_QuantumMeansBackend ==
    \A t \in DOMAIN results :
        /\ (IsValueRecord(results[t]) /\ results[t].method_used = "quantum")
              => calls[t].source = "backend"
        /\ (t \in DOMAIN calls /\ calls[t].source = "empirical")
              => (IsValueRecord(results[t]) /\ results[t].method_used = "fallback")

\* C10: the probability encoded into the rotation angle lies in
\* [0.001, 0.999].
C10_EncodedAwayFromPoles ==
    \A t \in DOMAIN calls :
        calls[t].encoded # <<>> =>
            /\ Le(F(1, 1000), calls[t].encoded[1])
            /\ Le(calls[t].encoded[1], F(999, 1000))

====
